---- MODULE Spec2Model ----
(***************************************************************************)
(* Model of td/telegram/RepliedMessageInfo.cpp: the two constructors of    *)
(* RepliedMessageInfo, need_reply_changed_warning and operator==.          *)
(* The operations are pure; a behaviour draws one call with its arguments  *)
(* in Init and the single step of that call computes the result.           *)
(***************************************************************************)
EXTENDS Integers, Sequences, FiniteSets, TLC

VARIABLES call, args, pc, ret

vars == <<call, args, pc, ret>>

(***************************************************************************)
(* Bounds of the model.                                                    *)
(***************************************************************************)
MaxServerId == 2
MaxDialog == 1
MaxDate == 2
MaxSessions == 2
MaxLen == 2
MaxSender == 2

(***************************************************************************)
(* MessageId: None | regular (server or local) | scheduled.                *)
(***************************************************************************)
MessageId == [kind |-> "none", id |-> 0, date |-> 0]

ServerMessageId(n) == [kind |-> "server", id |-> n, date |-> 0]

LocalMessageId(n) == [kind |-> "local", id |-> n, date |-> 0]

\* An identifier that would not be a valid scheduled one is the empty one.
ScheduledMessageId(n, date) ==
  IF n > 0 /\ date > 0
    THEN [kind |-> "scheduled", id |-> n, date |-> date]
    ELSE MessageId

ScheduledLocalMessageId(n, date) == [kind |-> "scheduled_local", id |-> n, date |-> date]

is_scheduled(m) == m.kind \in {"scheduled", "scheduled_local"}

is_valid(m) == m.kind \in {"server", "local"} /\ m.id > 0

is_valid_scheduled(m) == is_scheduled(m) /\ m.id > 0 /\ m.date > 0

is_scheduled_server(m) == m.kind = "scheduled"

get_scheduled_server_message_id(m) == m.id

\* Regular identifiers are ordered by server id; a local identifier lies
\* between the server identifier it follows and the next one.
MessageIdOrder(m) == 2 * m.id + (IF m.kind = "local" THEN 1 ELSE 0)

MessageIdGreater(a, b) == MessageIdOrder(a) > MessageIdOrder(b)

(***************************************************************************)
(* DialogId and the peer it is parsed from.                                *)
(***************************************************************************)
DialogId == [type |-> "None", id |-> 0]

NullPeer == [type |-> "null", id |-> 0]

DialogIdFromPeer(peer) ==
  IF peer.id > 0 THEN [type |-> peer.type, id |-> peer.id] ELSE DialogId

dialog_is_valid(d) == d.type # "None"

get_type(d) == d.type

(***************************************************************************)
(* MessageOrigin, FormattedText, MessageContent.                           *)
(***************************************************************************)
EmptyOrigin == [sender |-> 0, signature |-> ""]

origin_is_empty(o) == o.sender = 0 /\ o.signature = ""

has_sender_signature(o) == o.signature # ""

ErrorOrigin == [sender |-> -1, signature |-> "error"]

NullContent == [type |-> "null", data |-> 0]

EmptyText == [text |-> <<>>, entities |-> <<>>]

AllowedContentTypes ==
  {"Animation", "Audio", "Contact", "Dice", "Document", "Game", "Giveaway",
   "Invoice", "Location", "Photo", "Poll", "Sticker", "Story", "Unsupported",
   "Venue", "Video", "VideoNote", "VoiceNote"}

RejectedContentTypes ==
  {"ExpiredPhoto", "ExpiredVideo", "LiveLocation", "Text", "Call", "ChatCreate"}

ContentTypes == AllowedContentTypes \cup RejectedContentTypes

\* Characters of a quote: a letter, a space, and a byte that is not UTF-8.
Chars == {"a", " ", "X"}

check_utf8(str) == \A i \in 1..Len(str) : str[i] # "X"

RECURSIVE TrimLeft(_)
TrimLeft(str) ==
  IF str # <<>> /\ Head(str) = " " THEN TrimLeft(Tail(str)) ELSE str

RECURSIVE TrimRight(_)
TrimRight(str) ==
  IF str # <<>> /\ str[Len(str)] = " "
    THEN TrimRight(SubSeq(str, 1, Len(str) - 1))
    ELSE str

trim(str) == TrimRight(TrimLeft(str))

\* clean_input_string: refuses text that is not UTF-8 and leaves it as it is,
\* otherwise rewrites it in place.
clean_input_string(str) ==
  IF ~check_utf8(str) THEN [ok |-> FALSE, str |-> str]
  ELSE [ok |-> TRUE, str |-> trim(str)]

get_message_entities(quote_entities) == quote_entities

\* fix_formatted_text: an error leaves the text as it was.
fix_formatted_text(td, text, entities) ==
  IF ~check_utf8(text) \/ (td.entities_error /\ entities # <<>>)
    THEN [is_error |-> TRUE, text |-> text, entities |-> entities]
    ELSE [is_error |-> FALSE, text |-> trim(text),
          entities |-> IF trim(text) = <<>> THEN <<>> ELSE entities]

get_message_content(td, media) == [type |-> td.content_type, data |-> media.data]

\* MessageOrigin::get_message_origin: an error or the resolved origin.
get_message_origin(td, reply_from) == td.r_reply_origin

NoReplyFrom == [present |-> FALSE, date |-> 0, channel_post |-> 0]

NoMedia == [id |-> "null", data |-> 0]

(***************************************************************************)
(* RepliedMessageInfo and its constructors.                                *)
(***************************************************************************)
EmptyInfo ==
  [message_id_ |-> MessageId, dialog_id_ |-> DialogId, origin_date_ |-> 0,
   origin_ |-> EmptyOrigin, quote_ |-> EmptyText, is_quote_manual_ |-> FALSE,
   content_ |-> NullContent]

\* A switch that lost its case for basic groups.
has_qts_messages_NoChat(td, dialog_id) ==
  CASE get_type(dialog_id) \in {"User"} ->
         [unreachable |-> FALSE, result |-> td.session_count > 1]
    [] get_type(dialog_id) \in {"Channel", "SecretChat"} ->
         [unreachable |-> FALSE, result |-> FALSE]
    [] OTHER -> [unreachable |-> TRUE, result |-> FALSE]

\* Lines 26-39; unreachable tells that the switch ran into UNREACHABLE().
has_qts_messages(td, dialog_id) ==
  CASE get_type(dialog_id) \in {"User", "Chat"} ->
         [unreachable |-> FALSE, result |-> td.session_count > 1]
    [] get_type(dialog_id) \in {"Channel", "SecretChat"} ->
         [unreachable |-> FALSE, result |-> FALSE]
    [] OTHER -> [unreachable |-> TRUE, result |-> FALSE]

\* Lines 88-89 read has_qts_messages only when the conjuncts before it hold.
CallsHasQts(message_id, message_id_, dialog_id_) ==
  /\ ~is_scheduled(message_id)
  /\ ~dialog_is_valid(dialog_id_)
  /\ MessageIdGreater(message_id_, message_id)

\* A guard that forgets the chats whose identifiers arrive out of order.
CausalityGuard_NoQts(td, dialog_id, message_id, message_id_, dialog_id_) ==
  /\ ~is_scheduled(message_id)
  /\ ~dialog_is_valid(dialog_id_)
  /\ \/ MessageIdGreater(message_id_, message_id)
     \/ message_id_ = message_id

CausalityGuard(td, dialog_id, message_id, message_id_, dialog_id_) ==
  /\ ~is_scheduled(message_id)
  /\ ~dialog_is_valid(dialog_id_)
  /\ \/ /\ MessageIdGreater(message_id_, message_id)
        /\ ~has_qts_messages(td, dialog_id).result
     \/ message_id_ = message_id

\* A scheduled branch that tests the identifier it built, not the owner's.
ScheduledTarget_ChecksBuilt(reply_header, message_id, date) ==
  LET built == ScheduledMessageId(reply_header.reply_to_msg_id, date)
  IN IF is_valid_scheduled(built)
       THEN LET afterPeer == IF reply_header.reply_to_peer_id # NullPeer
                               THEN MessageId ELSE built
            IN [message_id_ |-> IF message_id = afterPeer THEN MessageId ELSE afterPeer,
                dialog_id_ |-> DialogId, crashed |-> FALSE]
       ELSE [message_id_ |-> MessageId, dialog_id_ |-> DialogId, crashed |-> FALSE]

\* Lines 47-68: the identifiers of a reply to a scheduled message.
ScheduledTarget(reply_header, message_id, date) ==
  LET built == ScheduledMessageId(reply_header.reply_to_msg_id, date)
  IN IF is_valid_scheduled(message_id)
       THEN LET afterPeer == IF reply_header.reply_to_peer_id # NullPeer
                               THEN MessageId ELSE built
            IN [message_id_ |-> IF message_id = afterPeer THEN MessageId ELSE afterPeer,
                dialog_id_ |-> DialogId, crashed |-> FALSE]
       ELSE [message_id_ |-> MessageId, dialog_id_ |-> DialogId, crashed |-> FALSE]

\* Lines 72-83: the chat of the replied message.
ParsePeer(reply_to_peer_id, dialog_id, message_id_) ==
  IF reply_to_peer_id # NullPeer
    THEN LET parsed == DialogIdFromPeer(reply_to_peer_id)
             m1 == IF ~dialog_is_valid(parsed) THEN MessageId ELSE message_id_
             d1 == IF ~dialog_is_valid(parsed) THEN DialogId ELSE parsed
         IN [message_id_ |-> m1,
             dialog_id_ |-> IF d1 = dialog_id THEN DialogId ELSE d1]
    ELSE [message_id_ |-> message_id_, dialog_id_ |-> DialogId]

\* A validation that clears the message identifier and keeps the chat.
ValidateTarget_KeepsDialog(td, dialog_id, message_id, s) ==
  IF ~is_valid(s.message_id_)
    THEN [message_id_ |-> MessageId, dialog_id_ |-> s.dialog_id_, crashed |-> FALSE]
    ELSE IF /\ CallsHasQts(message_id, s.message_id_, s.dialog_id_)
            /\ has_qts_messages(td, dialog_id).unreachable
      THEN [message_id_ |-> s.message_id_, dialog_id_ |-> s.dialog_id_, crashed |-> TRUE]
      ELSE IF CausalityGuard(td, dialog_id, message_id, s.message_id_, s.dialog_id_)
        THEN [message_id_ |-> MessageId, dialog_id_ |-> s.dialog_id_, crashed |-> FALSE]
        ELSE [message_id_ |-> s.message_id_, dialog_id_ |-> s.dialog_id_, crashed |-> FALSE]

\* Lines 84-92: an invalid target clears both fields, the guard clears the
\* message identifier.
ValidateTarget(td, dialog_id, message_id, s) ==
  IF ~is_valid(s.message_id_)
    THEN [message_id_ |-> MessageId, dialog_id_ |-> DialogId, crashed |-> FALSE]
    ELSE IF /\ CallsHasQts(message_id, s.message_id_, s.dialog_id_)
            /\ has_qts_messages(td, dialog_id).unreachable
      THEN [message_id_ |-> s.message_id_, dialog_id_ |-> s.dialog_id_, crashed |-> TRUE]
      ELSE IF CausalityGuard(td, dialog_id, message_id, s.message_id_, s.dialog_id_)
        THEN [message_id_ |-> MessageId, dialog_id_ |-> s.dialog_id_, crashed |-> FALSE]
        ELSE [message_id_ |-> s.message_id_, dialog_id_ |-> s.dialog_id_, crashed |-> FALSE]

\* Lines 70-95: the identifiers of a reply to a sent message.
RegularTarget(td, reply_header, dialog_id, message_id) ==
  IF reply_header.reply_to_msg_id # 0
    THEN ValidateTarget(td, dialog_id, message_id,
           ParsePeer(reply_header.reply_to_peer_id, dialog_id,
                     ServerMessageId(reply_header.reply_to_msg_id)))
    ELSE [message_id_ |-> MessageId, dialog_id_ |-> DialogId, crashed |-> FALSE]

\* Lines 96-106: the date of the origin; the resolved origin is only tested.
ReplyOrigin(td, reply_header) ==
  IF reply_header.reply_from.present
    THEN IF reply_header.reply_from.channel_post # 0
      THEN [origin_date_ |-> reply_header.reply_from.date, origin_ |-> EmptyOrigin]
      ELSE IF get_message_origin(td, reply_header.reply_from) = ErrorOrigin
        THEN [origin_date_ |-> 0, origin_ |-> EmptyOrigin]
        ELSE [origin_date_ |-> reply_header.reply_from.date, origin_ |-> EmptyOrigin]
    ELSE [origin_date_ |-> 0, origin_ |-> EmptyOrigin]

\* A filter whose case for plain text is not commented out.
IsAllowedContentType_WithText(type) == type \in AllowedContentTypes \cup {"Text"}

\* Lines 113-134: the content types a reply may carry.
IsAllowedContentType(type) == type \in AllowedContentTypes

\* Lines 107-140.
ReplyContent(td, reply_header) ==
  IF reply_header.reply_media.id \notin {"null", "messageMediaEmpty"}
    THEN LET content == get_message_content(td, reply_header.reply_media)
         IN IF IsAllowedContentType(content.type) THEN content ELSE NullContent
    ELSE NullContent

\* A quote that is dropped when its text cannot be fixed.
ReplyQuote_DropsQuote(td, reply_header) ==
  IF reply_header.quote_text # <<>>
    THEN LET entities == get_message_entities(reply_header.quote_entities)
             status == fix_formatted_text(td, reply_header.quote_text, entities)
         IN IF status.is_error
              THEN [is_quote_manual_ |-> reply_header.quote, quote_ |-> EmptyText]
              ELSE [is_quote_manual_ |-> reply_header.quote,
                    quote_ |-> [text |-> status.text, entities |-> status.entities]]
    ELSE [is_quote_manual_ |-> FALSE, quote_ |-> EmptyText]

\* Lines 142-154.
ReplyQuote(td, reply_header) ==
  IF reply_header.quote_text # <<>>
    THEN LET entities == get_message_entities(reply_header.quote_entities)
             status == fix_formatted_text(td, reply_header.quote_text, entities)
             cleaned == clean_input_string(reply_header.quote_text)
         IN IF status.is_error
              THEN [is_quote_manual_ |-> reply_header.quote,
                    quote_ |-> [text |-> IF cleaned.ok THEN cleaned.str ELSE <<>>,
                                entities |-> <<>>]]
              ELSE [is_quote_manual_ |-> reply_header.quote,
                    quote_ |-> [text |-> status.text, entities |-> status.entities]]
    ELSE [is_quote_manual_ |-> FALSE, quote_ |-> EmptyText]

\* Lines 43-155: the constructor from a received reply header.
RepliedMessageInfo(td, reply_header, dialog_id, message_id, date) ==
  LET target == IF reply_header.reply_to_scheduled
                  THEN ScheduledTarget(reply_header, message_id, date)
                  ELSE RegularTarget(td, reply_header, dialog_id, message_id)
      origin == IF reply_header.reply_to_scheduled
                  THEN [origin_date_ |-> 0, origin_ |-> EmptyOrigin]
                  ELSE ReplyOrigin(td, reply_header)
      content == IF reply_header.reply_to_scheduled
                   THEN NullContent
                   ELSE ReplyContent(td, reply_header)
      quote == ReplyQuote(td, reply_header)
  IN [crashed |-> target.crashed,
      info |-> [message_id_ |-> target.message_id_,
                dialog_id_ |-> target.dialog_id_,
                origin_date_ |-> origin.origin_date_,
                origin_ |-> origin.origin_,
                quote_ |-> quote.quote_,
                is_quote_manual_ |-> quote.is_quote_manual_,
                content_ |-> content]]

\* Lines 157-162: the constructor from a chosen reply target.
RepliedMessageInfoFromInput(input_reply_to) ==
  IF ~is_valid(input_reply_to.message_id_)
    THEN EmptyInfo
    ELSE [EmptyInfo EXCEPT !.message_id_ = input_reply_to.message_id_]

(***************************************************************************)
(* need_reply_changed_warning, lines 168-219, rule by rule.                *)
(***************************************************************************)
\* Lines 171-174.
OriginDateChanged(old_info, new_info) ==
  /\ old_info.origin_date_ # new_info.origin_date_
  /\ old_info.origin_date_ # 0
  /\ new_info.origin_date_ # 0

\* Lines 175-179.
OriginChanged(old_info, new_info) ==
  /\ old_info.origin_ # new_info.origin_
  /\ ~has_sender_signature(old_info.origin_)
  /\ ~has_sender_signature(new_info.origin_)
  /\ ~origin_is_empty(old_info.origin_)
  /\ ~origin_is_empty(new_info.origin_)

\* Lines 180-184.
DialogChanged(old_info, new_info) ==
  /\ old_info.dialog_id_ # new_info.dialog_id_
  /\ old_info.dialog_id_ # DialogId
  /\ new_info.dialog_id_ # DialogId

\* Line 185.
SameTarget(old_info, new_info) ==
  /\ old_info.message_id_ = new_info.message_id_
  /\ old_info.dialog_id_ = new_info.dialog_id_

\* A date test written with == in place of !=.
SameTargetWarning_DateEqual(old_info, new_info) ==
  /\ old_info.message_id_ # MessageId
  /\ \/ old_info.origin_date_ = new_info.origin_date_
     \/ /\ old_info.origin_ # new_info.origin_
        /\ ~has_sender_signature(old_info.origin_)
        /\ ~has_sender_signature(new_info.origin_)

\* Lines 186-197: the verdict for an unchanged target.
SameTargetWarning(old_info, new_info) ==
  /\ old_info.message_id_ # MessageId
  /\ \/ old_info.origin_date_ # new_info.origin_date_
     \/ /\ old_info.origin_ # new_info.origin_
        /\ ~has_sender_signature(old_info.origin_)
        /\ ~has_sender_signature(new_info.origin_)

\* Lines 199-206: a reply to a message deleted on one side only.
DeletedReply(old_info, new_info, is_yet_unsent, deleted_old, deleted_new) ==
  \/ is_yet_unsent /\ deleted_old /\ new_info.message_id_ = MessageId
  \/ is_yet_unsent /\ deleted_new /\ old_info.message_id_ = MessageId

\* A rule that compares the whole identifiers, publish date included.
ScheduleDateChange_FullId(old_info, new_info) ==
  /\ is_valid_scheduled(old_info.message_id_)
  /\ is_scheduled_server(old_info.message_id_)
  /\ is_valid_scheduled(new_info.message_id_)
  /\ is_scheduled_server(new_info.message_id_)
  /\ old_info.message_id_ = new_info.message_id_

\* Lines 207-213.
ScheduleDateChange(old_info, new_info) ==
  /\ is_valid_scheduled(old_info.message_id_)
  /\ is_scheduled_server(old_info.message_id_)
  /\ is_valid_scheduled(new_info.message_id_)
  /\ is_scheduled_server(new_info.message_id_)
  /\ get_scheduled_server_message_id(old_info.message_id_) =
       get_scheduled_server_message_id(new_info.message_id_)

\* Lines 214-217.
MovedToTopThread(new_info, old_top_thread_message_id, is_yet_unsent) ==
  /\ is_yet_unsent
  /\ old_top_thread_message_id = new_info.message_id_
  /\ new_info.dialog_id_ = DialogId

\* deleted_old and deleted_new are is_reply_to_deleted_message(old_info) and
\* is_reply_to_deleted_message(new_info).
need_reply_changed_warning(old_info, new_info, old_top_thread_message_id, is_yet_unsent, deleted_old, deleted_new) ==
  IF OriginDateChanged(old_info, new_info) THEN TRUE
  ELSE IF OriginChanged(old_info, new_info) THEN TRUE
  ELSE IF DialogChanged(old_info, new_info) THEN TRUE
  ELSE IF SameTarget(old_info, new_info) THEN SameTargetWarning(old_info, new_info)
  ELSE IF DeletedReply(old_info, new_info, is_yet_unsent, deleted_old, deleted_new)
    THEN FALSE
  ELSE IF ScheduleDateChange(old_info, new_info) THEN FALSE
  ELSE IF MovedToTopThread(new_info, old_top_thread_message_id, is_yet_unsent)
    THEN FALSE
  ELSE TRUE

\* compare_message_contents: a change of type asks for an update, a change of
\* the data of one type is a change of content.
compare_message_contents(lhs_content, rhs_content) ==
  [need_update |-> lhs_content.type # rhs_content.type,
   is_content_changed |-> lhs_content.type = rhs_content.type
                          /\ lhs_content.data # rhs_content.data]

\* Lines 275-288: operator==.
InfoEquals(lhs, rhs) ==
  IF ~(/\ lhs.message_id_ = rhs.message_id_
       /\ lhs.dialog_id_ = rhs.dialog_id_
       /\ lhs.origin_date_ = rhs.origin_date_
       /\ lhs.origin_ = rhs.origin_
       /\ lhs.quote_ = rhs.quote_
       /\ lhs.is_quote_manual_ = rhs.is_quote_manual_)
    THEN FALSE
    ELSE LET cmp == compare_message_contents(lhs.content_, rhs.content_)
         IN ~(cmp.need_update \/ cmp.is_content_changed)

(***************************************************************************)
(* The arguments the calls are drawn from.                                 *)
(***************************************************************************)
TargetIds == -1..MaxServerId

Dates == 0..MaxDate

Peers == {NullPeer} \cup [type : {"User", "Chat", "Channel"}, id : 0..MaxDialog]

OwnerDialogs ==
  {DialogId} \cup [type : {"User", "Chat", "Channel", "SecretChat"}, id : 1..MaxDialog]

ScheduledIds ==
  [kind : {"scheduled"}, id : 1..MaxServerId, date : Dates]
    \cup {ScheduledLocalMessageId(1, 1)}

\* The owning message has an identifier, sent, local or scheduled.
OwnerMessageIds ==
  {ServerMessageId(n) : n \in 1..MaxServerId}
    \cup {LocalMessageId(n) : n \in 1..MaxServerId} \cup ScheduledIds

Origins == [sender : 0..MaxSender, signature : {"", "s"}]

OriginResults == {ErrorOrigin} \cup (Origins \ {EmptyOrigin})

ReplyFroms ==
  {NoReplyFrom} \cup [present : {TRUE}, date : Dates, channel_post : {0, 1}]

Medias == [id : {"null", "messageMediaEmpty", "messageMediaPhoto"}, data : {0}]

RECURSIVE StringsOf(_)
StringsOf(n) ==
  IF n = 0 THEN {<<>>}
  ELSE StringsOf(n - 1)
         \cup {Append(str, c) : str \in {x \in StringsOf(n - 1) : Len(x) = n - 1}, c \in Chars}

Strings == StringsOf(MaxLen)

SomeReplyFrom == [present |-> TRUE, date |-> 1, channel_post |-> 0]

SomeMedia == [id |-> "messageMediaPhoto", data |-> 0]

SomeOrigin == [sender |-> 1, signature |-> ""]

DefaultTd ==
  [session_count |-> 1, r_reply_origin |-> SomeOrigin, content_type |-> "Photo",
   entities_error |-> FALSE]

Header(scheduled, id, peer, from, media, text, entities, quote) ==
  [reply_to_scheduled |-> scheduled, reply_to_msg_id |-> id,
   reply_to_peer_id |-> peer, reply_from |-> from, reply_media |-> media,
   quote_text |-> text, quote_entities |-> entities, quote |-> quote]

HeaderArgs(td, reply_header, dialog_id, message_id, date) ==
  [td |-> td, reply_header |-> reply_header, dialog_id |-> dialog_id,
   message_id |-> message_id, date |-> date]

SomeDialog == [type |-> "User", id |-> 1]

\* Headers that vary the target, with every owning chat and message.
TargetCalls(a) ==
  \E n \in 1..MaxSessions, scheduled \in BOOLEAN, id \in TargetIds, peer \in Peers,
     dialog_id \in OwnerDialogs, message_id \in OwnerMessageIds, date \in Dates :
    a = HeaderArgs([DefaultTd EXCEPT !.session_count = n],
                   Header(scheduled, id, peer, NoReplyFrom, NoMedia, <<>>, <<>>, FALSE),
                   dialog_id, message_id, date)

\* Headers that vary the origin and what the resolver answers.
OriginCalls(a) ==
  \E origin \in OriginResults, scheduled \in BOOLEAN, id \in {0, 1}, from \in ReplyFroms :
    a = HeaderArgs([DefaultTd EXCEPT !.r_reply_origin = origin],
                   Header(scheduled, id, NullPeer, from, NoMedia, <<>>, <<>>, FALSE),
                   SomeDialog, ServerMessageId(MaxServerId), 1)

\* Headers that vary the media and the content type it is read as.
ContentCalls(a) ==
  \E type \in ContentTypes, scheduled \in BOOLEAN, id \in {0, 1}, media \in Medias,
     message_id \in {ServerMessageId(MaxServerId), ScheduledMessageId(MaxServerId, 1)} :
    a = HeaderArgs([DefaultTd EXCEPT !.content_type = type],
                   Header(scheduled, id, NullPeer, NoReplyFrom, media, <<>>, <<>>, FALSE),
                   SomeDialog, message_id, 1)

\* Headers that vary the quote.
QuoteCalls(a) ==
  \E error \in BOOLEAN, scheduled \in BOOLEAN, from \in {NoReplyFrom, SomeReplyFrom},
     media \in {NoMedia, SomeMedia}, text \in Strings,
     entities \in {<<>>, <<"bold">>}, quote \in BOOLEAN :
    a = HeaderArgs([DefaultTd EXCEPT !.entities_error = error],
                   Header(scheduled, 1, NullPeer, from, media, text, entities, quote),
                   SomeDialog, ServerMessageId(MaxServerId), 1)

HeaderCalls(a) == OriginCalls(a) \/ ContentCalls(a) \/ QuoteCalls(a) \/ TargetCalls(a)

InputCalls ==
  {[input_reply_to |-> [message_id_ |-> m]] :
     m \in OwnerMessageIds \cup {MessageId, ServerMessageId(-1)}}

InfoOf(message_id, dialog_id, origin_date, origin) ==
  [EmptyInfo EXCEPT !.message_id_ = message_id, !.dialog_id_ = dialog_id,
                    !.origin_date_ = origin_date, !.origin_ = origin]

InfoDialogs == {DialogId} \cup [type : {"User", "Channel"}, id : 1..MaxDialog]

InfoMessageIds ==
  {MessageId} \cup {ServerMessageId(n) : n \in 1..MaxServerId}
    \cup [kind : {"scheduled"}, id : 1..MaxServerId, date : 1..MaxDate]
    \cup {ScheduledLocalMessageId(1, 1)}

\* References that vary the target.
TargetInfos ==
  {InfoOf(m, d, 0, EmptyOrigin) : m \in InfoMessageIds, d \in InfoDialogs}

\* References that vary the origin and its date.
OriginInfos ==
  {InfoOf(m, d, date, origin) :
     m \in {MessageId, ServerMessageId(1)}, d \in {DialogId, [type |-> "Channel", id |-> 1]},
     date \in Dates, origin \in Origins}

\* References that vary the quote and the content.
QuoteInfos ==
  {[InfoOf(ServerMessageId(1), DialogId, 0, EmptyOrigin)
      EXCEPT !.quote_ = [text |-> text, entities |-> <<>>],
             !.is_quote_manual_ = manual, !.content_ = content] :
     text \in {<<>>, <<"a">>}, manual \in BOOLEAN,
     content \in {NullContent} \cup [type : {"Photo", "Video"}, data : {0, 1}]}

WarningArgs(old_info, new_info, top, unsent, deleted_old, deleted_new) ==
  [old_info |-> old_info, new_info |-> new_info, old_top_thread_message_id |-> top,
   is_yet_unsent |-> unsent, deleted_old |-> deleted_old, deleted_new |-> deleted_new]

\* is_reply_to_deleted_message is a function of the reference.
WarningCallsOf(a, infos, tops) ==
  \E old_info \in infos, new_info \in infos, top \in tops, unsent \in BOOLEAN,
     deleted_old \in BOOLEAN, deleted_new \in BOOLEAN :
    /\ old_info = new_info => deleted_old = deleted_new
    /\ a = WarningArgs(old_info, new_info, top, unsent, deleted_old, deleted_new)

WarningCalls(a) ==
  \/ WarningCallsOf(a, TargetInfos,
                    {MessageId} \cup {ServerMessageId(n) : n \in 1..MaxServerId})
  \/ WarningCallsOf(a, OriginInfos, {MessageId})
  \/ WarningCallsOf(a, QuoteInfos, {MessageId})

EqualsCalls(a) ==
  \E lhs \in QuoteInfos \cup TargetInfos, rhs \in QuoteInfos : a = [lhs |-> lhs, rhs |-> rhs]

(***************************************************************************)
(* The state machine: one call, one step.                                  *)
(***************************************************************************)
Init ==
  /\ pc = "start"
  /\ \/ call = "RepliedMessageInfo" /\ HeaderCalls(args) /\ ret = EmptyInfo
     \/ call = "RepliedMessageInfoFromInput" /\ args \in InputCalls /\ ret = EmptyInfo
     \/ call = "need_reply_changed_warning" /\ WarningCalls(args) /\ ret = FALSE
     \/ call = "operator==" /\ EqualsCalls(args) /\ ret = FALSE

Construct ==
  /\ call = "RepliedMessageInfo" /\ pc = "start"
  /\ LET r == RepliedMessageInfo(args.td, args.reply_header, args.dialog_id,
                                 args.message_id, args.date)
     IN /\ pc' = IF r.crashed THEN "crashed" ELSE "done"
        /\ ret' = IF r.crashed THEN EmptyInfo ELSE r.info
  /\ UNCHANGED <<call, args>>

ConstructFromInput ==
  /\ call = "RepliedMessageInfoFromInput" /\ pc = "start"
  /\ ret' = RepliedMessageInfoFromInput(args.input_reply_to)
  /\ pc' = "done"
  /\ UNCHANGED <<call, args>>

NeedReplyChangedWarning ==
  /\ call = "need_reply_changed_warning" /\ pc = "start"
  /\ ret' = need_reply_changed_warning(args.old_info, args.new_info,
                                       args.old_top_thread_message_id, args.is_yet_unsent,
                                       args.deleted_old, args.deleted_new)
  /\ pc' = "done"
  /\ UNCHANGED <<call, args>>

Equals ==
  /\ call = "operator==" /\ pc = "start"
  /\ ret' = InfoEquals(args.lhs, args.rhs)
  /\ pc' = "done"
  /\ UNCHANGED <<call, args>>

Next == Construct \/ ConstructFromInput \/ NeedReplyChangedWarning \/ Equals

Spec == Init /\ [][Next]_vars

(***************************************************************************)
(* The claims.                                                             *)
(***************************************************************************)
HeaderDone == call = "RepliedMessageInfo" /\ pc = "done"

InputDone == call = "RepliedMessageInfoFromInput" /\ pc = "done"

WarningDone == call = "need_reply_changed_warning" /\ pc = "done"

\* The chat the header names, once parsed.
ParsedPeer == DialogIdFromPeer(args.reply_header.reply_to_peer_id)

\* The header names another chat than the owning one.
OtherChat ==
  /\ args.reply_header.reply_to_peer_id # NullPeer
  /\ dialog_is_valid(ParsedPeer)
  /\ ParsedPeer # args.dialog_id

\* The header names no chat, or names the owning chat.
SameChat ==
  \/ args.reply_header.reply_to_peer_id = NullPeer
  \/ dialog_is_valid(ParsedPeer) /\ ParsedPeer = args.dialog_id

\* C1: a reference built by either constructor that has no message
\* identifier has no chat identifier either.
C1_NoMessageNoChat ==
  (HeaderDone \/ InputDone) =>
    (ret.message_id_ = MessageId => ret.dialog_id_ = DialogId)

\* C1 witness: a header that names another chat and an invalid target was
\* normalized, and the message identifier came out empty.
C1_Witness ==
  /\ HeaderDone
  /\ ~args.reply_header.reply_to_scheduled
  /\ args.reply_header.reply_to_msg_id < 0
  /\ OtherChat
  /\ ret.message_id_ = MessageId

BuiltScheduled == ScheduledMessageId(args.reply_header.reply_to_msg_id, args.date)

C4_Original ==
  (HeaderDone /\ ~args.reply_header.reply_to_scheduled
     /\ args.reply_header.reply_from.present) =>
    /\ (args.reply_header.reply_from.channel_post = 0
          /\ args.td.r_reply_origin # ErrorOrigin) =>
         /\ ret.origin_ = args.td.r_reply_origin
         /\ ~origin_is_empty(ret.origin_)
         /\ ret.origin_date_ = args.reply_header.reply_from.date
    /\ (args.reply_header.reply_from.channel_post = 0
          /\ args.td.r_reply_origin = ErrorOrigin) =>
         origin_is_empty(ret.origin_) /\ ret.origin_date_ = 0
    /\ args.reply_header.reply_from.channel_post # 0 => origin_is_empty(ret.origin_)

\* allows_out_of_order_ids of the owning chat.
AllowsOutOfOrderIds ==
  get_type(args.dialog_id) \in {"User", "Chat"} /\ args.td.session_count > 1

TargetId == ServerMessageId(args.reply_header.reply_to_msg_id)

\* C5: for a sent target with a valid identifier in a message that is not
\* scheduled, a same-chat reply loses its message identifier exactly when the
\* target is the owning message, or is greater and the chat does not allow
\* identifiers out of order; a reply into another chat keeps both.
C5_CausalityGuard ==
  (HeaderDone /\ ~args.reply_header.reply_to_scheduled
     /\ args.reply_header.reply_to_msg_id > 0 /\ ~is_scheduled(args.message_id)) =>
    /\ SameChat =>
         /\ ret.dialog_id_ = DialogId
         /\ ret.message_id_ = MessageId <=>
              \/ TargetId = args.message_id
              \/ MessageIdGreater(TargetId, args.message_id) /\ ~AllowsOutOfOrderIds
         /\ ret.message_id_ # MessageId => ret.message_id_ = TargetId
    /\ OtherChat => ret.message_id_ = TargetId /\ ret.dialog_id_ = ParsedPeer

\* C5 witness: a reply in a channel to a later message of the channel lost
\* its message identifier.
C5_Witness ==
  /\ HeaderDone
  /\ ~args.reply_header.reply_to_scheduled
  /\ args.reply_header.reply_to_msg_id > 0
  /\ is_valid(args.message_id)
  /\ SameChat
  /\ get_type(args.dialog_id) = "Channel"
  /\ MessageIdGreater(TargetId, args.message_id)
  /\ ret.message_id_ = MessageId

\* Two origins that differ in the sender signature and in nothing else.
DifferOnlyInSignature(o1, o2) == o1.sender = o2.sender /\ o1.signature # o2.signature

\* C6 as stated: for one unchanged, non-empty target the verdict is benign
\* exactly when the origin date is unchanged and the origins are equal or
\* differ only in the sender signature.
C6_Original ==
  (WarningDone /\ args.old_info.message_id_ = args.new_info.message_id_
     /\ args.old_info.dialog_id_ = args.new_info.dialog_id_
     /\ args.old_info.message_id_ # MessageId) =>
    (ret = FALSE <=>
       /\ args.old_info.origin_date_ = args.new_info.origin_date_
       /\ \/ args.old_info.origin_ = args.new_info.origin_
          \/ DifferOnlyInSignature(args.old_info.origin_, args.new_info.origin_))

\* A valid scheduled server identifier.
ScheduledServer(m) == m.kind = "scheduled" /\ m.id > 0 /\ m.date > 0

\* Old and new point at one scheduled message whose publish date moved.
ScheduleDateMoved ==
  /\ ScheduledServer(args.old_info.message_id_)
  /\ ScheduledServer(args.new_info.message_id_)
  /\ args.old_info.message_id_.id = args.new_info.message_id_.id
  /\ args.old_info.message_id_.date # args.new_info.message_id_.date
  /\ \A info \in {args.old_info, args.new_info} :
       info.dialog_id_ = DialogId /\ info.origin_date_ = 0 /\ origin_is_empty(info.origin_)

\* C7: a change of the publish date of one scheduled target is benign,
\* whatever the top thread message, is_yet_unsent and the deleted-message
\* predicate; and every reference built from a header with a scheduled
\* target has no chat, no origin date and no origin.
C7_ScheduleDateChange ==
  /\ (WarningDone /\ ScheduleDateMoved) => ret = FALSE
  /\ (HeaderDone /\ args.reply_header.reply_to_scheduled) =>
       /\ ret.dialog_id_ = DialogId
       /\ ret.origin_date_ = 0
       /\ origin_is_empty(ret.origin_)

\* C7 witness: such a pair was classified for a message that is sent.
C7_Witness == WarningDone /\ ScheduleDateMoved /\ ~args.is_yet_unsent

\* The quote's text is not empty and fix_formatted_text fails on it.
QuoteFixFailed ==
  /\ call = "RepliedMessageInfo" /\ pc # "start"
  /\ args.reply_header.quote_text # <<>>
  /\ \/ ~check_utf8(args.reply_header.quote_text)
     \/ args.td.entities_error /\ args.reply_header.quote_entities # <<>>

\* The reference for the same header with a quote that can be fixed.
WithFixedQuote ==
  RepliedMessageInfo([args.td EXCEPT !.entities_error = FALSE],
                     [args.reply_header EXCEPT !.quote_text = <<"a">>],
                     args.dialog_id, args.message_id, args.date).info

SameButQuote(a, b) ==
  /\ a.message_id_ = b.message_id_
  /\ a.dialog_id_ = b.dialog_id_
  /\ a.origin_date_ = b.origin_date_
  /\ a.origin_ = b.origin_
  /\ a.content_ = b.content_

\* C8 as amended: when fix_formatted_text fails the construction completes,
\* the quote has no entities, its text is the cleaned raw text when the raw
\* text is UTF-8 and is empty when it is not, is_quote_manual is the header's
\* flag, and the other fields are those of a header whose quote can be fixed.
C8_QuoteFallback ==
  QuoteFixFailed =>
    /\ pc = "done"
    /\ ret.quote_.entities = <<>>
    /\ ret.quote_.text = IF check_utf8(args.reply_header.quote_text)
                           THEN trim(args.reply_header.quote_text)
                           ELSE <<>>
    /\ ret.is_quote_manual_ = args.reply_header.quote
    /\ SameButQuote(ret, WithFixedQuote)

\* C8 witness: a quote with entities that cannot be fixed kept its cleaned
\* text.
C8_Witness ==
  /\ QuoteFixFailed
  /\ check_utf8(args.reply_header.quote_text)
  /\ ret.quote_.text # <<>>
  /\ ret.quote_.text # args.reply_header.quote_text

\* C8 as stated: when fix_formatted_text fails the quote's text is what the
\* cleanup of the raw text leaves, and the quote is not dropped.
C8_Original ==
  QuoteFixFailed =>
    /\ pc = "done"
    /\ ret.quote_.entities = <<>>
    /\ ret.quote_.text = clean_input_string(args.reply_header.quote_text).str
    /\ ret.is_quote_manual_ = args.reply_header.quote
    /\ SameButQuote(ret, WithFixedQuote)

\* The content kinds a reply snapshot may have.
SnapshotKinds ==
  {"Animation", "Audio", "Contact", "Dice", "Document", "Game", "Giveaway",
   "Invoice", "Location", "Photo", "Poll", "Sticker", "Story", "Unsupported",
   "Venue", "Video", "VideoNote", "VoiceNote"}

\* C9: the content of a built reference is absent or of an allowed kind; a
\* content of another kind is dropped; a scheduled target and a chosen
\* target never have content.
C9_ContentAllowList ==
  /\ (HeaderDone \/ InputDone) =>
       ret.content_ = NullContent \/ ret.content_.type \in SnapshotKinds
  /\ (HeaderDone /\ args.td.content_type \notin SnapshotKinds) =>
       ret.content_ = NullContent
  /\ (HeaderDone /\ args.reply_header.reply_to_scheduled) => ret.content_ = NullContent
  /\ InputDone => ret.content_ = NullContent

\* C9 witness: a sent target whose media was read as plain text has no
\* content.
C9_Witness ==
  /\ HeaderDone
  /\ ~args.reply_header.reply_to_scheduled
  /\ args.reply_header.reply_media.id = "messageMediaPhoto"
  /\ args.td.content_type = "Text"
  /\ ret.content_ = NullContent

\* C10: two references operator== calls equal are never a meaningful
\* change, and a meaningful change differs in the message, the chat, the
\* origin date or the origin.
C10_EqualIsBenign ==
  WarningDone =>
    /\ InfoEquals(args.old_info, args.new_info) => ret = FALSE
    /\ ret = TRUE =>
         \/ args.old_info.message_id_ # args.new_info.message_id_
         \/ args.old_info.dialog_id_ # args.new_info.dialog_id_
         \/ args.old_info.origin_date_ # args.new_info.origin_date_
         \/ args.old_info.origin_ # args.new_info.origin_

\* C10 witness: a reference with a target, an origin and an origin date was
\* classified against an equal one for a message that is not sent yet.
C10_Witness ==
  /\ WarningDone
  /\ InfoEquals(args.old_info, args.new_info)
  /\ args.old_info.message_id_ # MessageId
  /\ args.old_info.origin_date_ # 0
  /\ ~origin_is_empty(args.old_info.origin_)
  /\ args.is_yet_unsent

====
